---------------------------- MODULE Spec2Model ----------------------------
(***************************************************************************)
(* Model of university_scraper.py: the scraping pipeline of main(), the    *)
(* page fetcher fetch_html, the text normalizer, the two university        *)
(* extractors, the course extractor and the relational assembly.           *)
(*                                                                         *)
(* Text is a sequence of one-character strings.  Python's None and the     *)
(* empty string are both the empty sequence wherever the code only tests   *)
(* truthiness or passes the value to clean_text.                           *)
(***************************************************************************)
EXTENDS Integers, Sequences, FiniteSets, TLC

(***************************************************************************)
(* Bounds of the model                                                     *)
(***************************************************************************)
\* number of configured targets the multi-target runs go through
NumTargets == 3
\* longest list of program links a university page of a single-target run offers
MaxLinks == 6
\* longest list of program links a university page of a multi-target run offers
ShortLinks == 1
\* largest retry bound of a stand-alone fetch_html call
MaxRetries == 3
\* largest number of badges on a stand-alone extract_badges input
MaxBadges == 2
\* longest department list of a stand-alone structured-data extraction
MaxDepartments == 3

(***************************************************************************)
(* Program constants                                                       *)
(***************************************************************************)
MIN_COURSES_PER_UNIVERSITY == 5
TARGET_COUNTRY == <<"I", "n", "d", "i", "a">>
DefaultRetries == 3
NA == <<"N", "/", "A">>
Absent == <<>>

UpperChars == <<"A", "B", "C", "D", "E", "F", "G", "H", "I", "J", "K", "L", "M", "N", "O", "P", "Q", "R", "S", "T", "U", "V", "W", "X", "Y", "Z">>
LowerChars == <<"a", "b", "c", "d", "e", "f", "g", "h", "i", "j", "k", "l", "m", "n", "o", "p", "q", "r", "s", "t", "u", "v", "w", "x", "y", "z">>
DigitChars == <<"0", "1", "2", "3", "4", "5", "6", "7", "8", "9">>

ALLOWED_LEVEL_SEGMENTS ==
    { <<"u", "n", "d", "e", "r", "g", "r", "a", "d">>, <<"b", "a", "c", "h", "e", "l", "o", "r", "s">>, <<"m", "a", "s", "t", "e", "r", "s">>, <<"p", "h", "d">>, <<"p", "o", "s", "t", "g", "r", "a", "d">>,
      <<"m", "b", "a">>, <<"d", "i", "p", "l", "o", "m", "a">>, <<"c", "e", "r", "t">>, <<"f", "o", "u", "n", "d", "a", "t", "i", "o", "n">> }

LEVEL_BY_SEGMENT(seg) ==
    CASE seg = <<"u", "n", "d", "e", "r", "g", "r", "a", "d">> -> <<"B", "a", "c", "h", "e", "l", "o", "r">>
      [] seg = <<"b", "a", "c", "h", "e", "l", "o", "r", "s">> -> <<"B", "a", "c", "h", "e", "l", "o", "r">>
      [] seg = <<"m", "a", "s", "t", "e", "r", "s">> -> <<"M", "a", "s", "t", "e", "r">>
      [] seg = <<"p", "o", "s", "t", "g", "r", "a", "d">> -> <<"M", "a", "s", "t", "e", "r">>
      [] seg = <<"p", "h", "d">> -> <<"P", "h", "D">>
      [] seg = <<"m", "b", "a">> -> <<"M", "B", "A">>
      [] seg = <<"d", "i", "p", "l", "o", "m", "a">> -> <<"D", "i", "p", "l", "o", "m", "a">>
      [] seg = <<"c", "e", "r", "t">> -> <<"C", "e", "r", "t", "i", "f", "i", "c", "a", "t", "e">>
      [] seg = <<"f", "o", "u", "n", "d", "a", "t", "i", "o", "n">> -> <<"F", "o", "u", "n", "d", "a", "t", "i", "o", "n">>
      [] OTHER -> NA

COUNTRY_ALIASES(t) ==
    CASE t = <<"U", "s">> -> <<"U", "n", "i", "t", "e", "d", " ", "S", "t", "a", "t", "e", "s">>
      [] t = <<"U", ".", "S", ".">> -> <<"U", "n", "i", "t", "e", "d", " ", "S", "t", "a", "t", "e", "s">>
      [] t = <<"U", "s", "a">> -> <<"U", "n", "i", "t", "e", "d", " ", "S", "t", "a", "t", "e", "s">>
      [] t = <<"U", "k">> -> <<"U", "n", "i", "t", "e", "d", " ", "K", "i", "n", "g", "d", "o", "m">>
      [] t = <<"E", "n", "g", "l", "a", "n", "d">> -> <<"U", "n", "i", "t", "e", "d", " ", "K", "i", "n", "g", "d", "o", "m">>
      [] OTHER -> t

small_words ==
    { <<"a", "n", "d">>, <<"o", "r">>, <<"o", "f">>, <<"t", "h", "e">>, <<"i", "n">>, <<"o", "n">>, <<"f", "o", "r">>, <<"t", "o">>,
      <<"a", "t">>, <<"b", "y">>, <<"w", "i", "t", "h">> }

(***************************************************************************)
(* Characters and strings (str methods used by the program)                *)
(***************************************************************************)
IsSpace(c) == c \in {" ", "\t", "\n"}
IsUpperChar(c) == \E i \in 1..26 : UpperChars[i] = c
IsLowerChar(c) == \E i \in 1..26 : LowerChars[i] = c
IsDigit(c) == \E i \in 1..10 : DigitChars[i] = c
IsWordChar(c) == IsUpperChar(c) \/ IsLowerChar(c) \/ IsDigit(c) \/ c = "_"

LowerChar(c) ==
    IF IsUpperChar(c) THEN LowerChars[CHOOSE i \in 1..26 : UpperChars[i] = c] ELSE c
UpperChar(c) ==
    IF IsLowerChar(c) THEN UpperChars[CHOOSE i \in 1..26 : LowerChars[i] = c] ELSE c

\* str.lower()
Lower(s) == [i \in 1..Len(s) |-> LowerChar(s[i])]
\* str.isupper(): at least one cased character and no lower-case one
IsUpper(s) ==
    /\ \E i \in 1..Len(s) : IsUpperChar(s[i])
    /\ \A i \in 1..Len(s) : ~IsLowerChar(s[i])
\* str.capitalize(): first character upper-cased, the rest lower-cased
Capitalize(s) ==
    [i \in 1..Len(s) |-> IF i = 1 THEN UpperChar(s[i]) ELSE LowerChar(s[i])]
\* str.startswith / str.endswith
StartsWith(s, p) == Len(p) <= Len(s) /\ SubSeq(s, 1, Len(p)) = p
EndsWith(s, p) == Len(p) <= Len(s) /\ SubSeq(s, Len(s) - Len(p) + 1, Len(s)) = p
\* "sub in s"
Contains(s, sub) ==
    \E i \in 1..(Len(s) - Len(sub) + 1) : SubSeq(s, i, i + Len(sub) - 1) = sub
\* s[:-n] for n >= 1
DropLast(s, n) == SubSeq(s, 1, Len(s) - n)

RECURSIVE LStrip(_)
LStrip(s) == IF s # <<>> /\ IsSpace(Head(s)) THEN LStrip(Tail(s)) ELSE s
RECURSIVE RStrip(_)
RStrip(s) ==
    IF s # <<>> /\ IsSpace(s[Len(s)]) THEN RStrip(SubSeq(s, 1, Len(s) - 1)) ELSE s
\* str.strip()
Strip(s) == RStrip(LStrip(s))

\* re.sub(r"\s+", " ", s)
RECURSIVE CollapseWs(_)
CollapseWs(s) ==
    IF s = <<>> THEN <<>>
    ELSE IF IsSpace(Head(s)) THEN <<" ">> \o CollapseWs(LStrip(s))
    ELSE <<Head(s)>> \o CollapseWs(Tail(s))

\* the first whitespace-free run of s, and what follows it
RECURSIVE FirstWord(_)
FirstWord(s) ==
    IF s = <<>> \/ IsSpace(Head(s)) THEN <<>> ELSE <<Head(s)>> \o FirstWord(Tail(s))
\* str.split() without arguments
RECURSIVE Split(_)
RECURSIVE SplitStripped(_)
RECURSIVE SplitAfter(_, _)
Split(s) == SplitStripped(LStrip(s))
SplitStripped(t) == IF t = <<>> THEN <<>> ELSE SplitAfter(t, FirstWord(t))
SplitAfter(t, w) == <<w>> \o Split(SubSeq(t, Len(w) + 1, Len(t)))
\* " ".join(words)
RECURSIVE Join(_)
Join(words) ==
    IF words = <<>> THEN <<>>
    ELSE IF Len(words) = 1 THEN words[1]
    ELSE words[1] \o <<" ">> \o Join(Tail(words))

(***************************************************************************)
(* Text Normalizer                                                         *)
(***************************************************************************)
\* "text if text else 'N/A'"
OrNA(text) == IF text # <<>> THEN text ELSE NA

clean_text(value) ==
    IF value = Absent THEN NA ELSE OrNA(Strip(CollapseWs(value)))

\* one word of smart_title_case, i being its 1-based position
TitleWord(i, word) ==
    IF IsUpper(word) /\ Len(word) <= 5 THEN word
    ELSE IF i > 1 /\ Lower(word) \in small_words THEN Lower(word)
    ELSE Capitalize(word)

TitleWords(split) == [i \in 1..Len(split) |-> TitleWord(i, split[i])]

\* smart_title_case after its first line, text being clean_text(text)
TitleCased(text) ==
    IF text = NA THEN text ELSE COUNTRY_ALIASES(Join(TitleWords(Split(text))))

smart_title_case(value) == TitleCased(clean_text(value))

\* f"{prefix}{n:0{width}d}"
RECURSIVE Digits(_)
Digits(n) == IF n < 10 THEN <<DigitChars[n + 1]>> ELSE Digits(n \div 10) \o <<DigitChars[(n % 10) + 1]>>
RECURSIVE ZeroPad(_, _)
ZeroPad(s, width) == IF Len(s) >= width THEN s ELSE ZeroPad(<<"0">> \o s, width)
FormatId(prefix, n, width) == <<prefix>> \o ZeroPad(Digits(n), width)

\* str.split(ch): the pieces between the occurrences of ch (never empty list)
RECURSIVE UpTo(_, _)
UpTo(s, ch) == IF s = <<>> \/ Head(s) = ch THEN <<>> ELSE <<Head(s)>> \o UpTo(Tail(s), ch)
RECURSIVE SplitOn(_, _)
RECURSIVE SplitOnAfter(_, _, _)
SplitOn(s, ch) == SplitOnAfter(s, ch, UpTo(s, ch))
SplitOnAfter(s, ch, first) ==
    IF Len(first) = Len(s) THEN <<first>>
    ELSE <<first>> \o SplitOn(SubSeq(s, Len(first) + 2, Len(s)), ch)
\* str.strip(ch)
RECURSIVE StripCh(_, _)
StripCh(s, ch) ==
    IF s # <<>> /\ Head(s) = ch THEN StripCh(Tail(s), ch)
    ELSE IF s # <<>> /\ s[Len(s)] = ch THEN StripCh(SubSeq(s, 1, Len(s) - 1), ch)
    ELSE s
\* "a or b" on texts
Or(a, b) == IF a # <<>> THEN a ELSE b

BASE_URL == <<"h", "t", "t", "p", "s", ":", "/", "/", "w", "w", "w", ".", "t", "o", "p", "u", "n", "i", "v", "e", "r", "s", "i", "t", "i", "e", "s", ".", "c", "o", "m">>

(***************************************************************************)
(* Entity Field Extractor, Source B (encyclopedia)                         *)
(***************************************************************************)
\* re.sub(r"\[[^\]]*\]", "", s)
RECURSIVE RemoveBrackets(_)
RemoveBrackets(s) ==
    IF s = <<>> THEN <<>>
    ELSE IF Head(s) = "[" /\ \E j \in 2..Len(s) : s[j] = "]"
         THEN RemoveBrackets(SubSeq(s, Len(UpTo(Tail(s), "]")) + 3, Len(s)))
    ELSE <<Head(s)>> \o RemoveBrackets(Tail(s))

\* re.search(r"\d", s)
HasDigit(s) == \E i \in 1..Len(s) : IsDigit(s[i])
\* re.search(r"\b[NSWE]\b", s)
HasLoneCompassLetter(s) ==
    \E i \in 1..Len(s) :
        /\ s[i] \in {"N", "S", "W", "E"}
        /\ (i = 1 \/ ~IsWordChar(s[i - 1]))
        /\ (i = Len(s) \/ ~IsWordChar(s[i + 1]))

\* the infobox rows that have both a header and a cell; label as the code reads it
RowLabel(row) == Lower(clean_text(row.th))
\* first row with one of the labels, or 0
FirstRow(infobox, labels) ==
    IF \E i \in 1..Len(infobox) : RowLabel(infobox[i]) \in labels
    THEN CHOOSE i \in 1..Len(infobox) :
            /\ RowLabel(infobox[i]) \in labels
            /\ \A j \in 1..(i - 1) : RowLabel(infobox[j]) \notin labels
    ELSE 0

KeepLocationPart(part) ==
    part # NA /\ ~HasDigit(part) /\ ~HasLoneCompassLetter(part)

CleanParts(split) == [i \in 1..Len(split) |-> clean_text(split[i])]

\* the location cell of the infobox, r being the row found (0 for none)
LocationRaw(infobox, r) == IF r = 0 THEN NA ELSE clean_text(infobox[r].td)

\* filtered_parts of a location cell
LocationParts(location_raw) ==
    SelectSeq(CleanParts(SplitOn(RemoveBrackets(location_raw), ",")), KeepLocationPart)

CityCountry(filtered_parts) ==
    IF filtered_parts = <<>> THEN <<NA, NA>>
    ELSE IF Len(filtered_parts) = 1 THEN <<smart_title_case(filtered_parts[1]), NA>>
    ELSE <<smart_title_case(filtered_parts[1]),
           smart_title_case(filtered_parts[Len(filtered_parts)])>>

CityCountryOfCell(location_raw) ==
    IF location_raw = NA THEN <<NA, NA>> ELSE CityCountry(LocationParts(location_raw))

extract_city_country_from_wikipedia(soup) ==
    CityCountryOfCell(LocationRaw(soup.infobox,
                                  FirstRow(soup.infobox, { <<"l", "o", "c", "a", "t", "i", "o", "n">>, <<"a", "d", "d", "r", "e", "s", "s">> })))

\* the link of the website cell made absolute
AbsoluteHref(href) ==
    IF StartsWith(href, <<"/", "/">>) THEN <<"h", "t", "t", "p", "s", ":">> \o href
    ELSE IF StartsWith(href, <<"/">>) THEN <<"h", "t", "t", "p", "s", ":", "/", "/", "e", "n", ".", "w", "i", "k", "i", "p", "e", "d", "i", "a", ".", "o", "r", "g">> \o href
    ELSE href

\* the website of the infobox, r being the row found (0 for none)
WikiWebsite(infobox, r) ==
    IF r = 0 THEN NA
    ELSE IF infobox[r].href # Absent THEN AbsoluteHref(clean_text(infobox[r].href))
    ELSE clean_text(infobox[r].td)

WikiRecord(soup, city_country) ==
    [name |-> IF soup.heading # Absent THEN clean_text(soup.heading) ELSE NA,
     city |-> city_country[1],
     country |-> city_country[2],
     website |-> WikiWebsite(soup.infobox, FirstRow(soup.infobox, { <<"w", "e", "b", "s", "i", "t", "e">> }))]

\* wiki_html is the fetched page, or Absent when fetch_html returned None
extract_website_from_wikipedia(wiki_html) ==
    IF wiki_html = Absent
    THEN [name |-> NA, city |-> NA, country |-> NA, website |-> NA]
    ELSE WikiRecord(wiki_html[1], extract_city_country_from_wikipedia(wiki_html[1]))

(***************************************************************************)
(* Entity Field Extractor, Source A (structured data)                      *)
(***************************************************************************)
\* city and country after one department
DepartmentStep(candidate_city, candidate_country, city, country) ==
    << IF candidate_city # NA THEN smart_title_case(candidate_city) ELSE city,
       IF candidate_country # NA THEN smart_title_case(candidate_country) ELSE country >>

\* the loop over the departments of one organization object, with its break
RECURSIVE ScanDepartments(_, _, _)
RECURSIVE ScanRest(_, _)
ScanDepartments(departments, city, country) ==
    IF departments = <<>> THEN <<city, country>>
    ELSE ScanRest(Tail(departments),
                  DepartmentStep(clean_text(Head(departments).addressLocality),
                                 clean_text(Head(departments).addressCountry),
                                 city, country))
ScanRest(departments, loc) ==
    IF loc[1] # NA \/ loc[2] # NA THEN loc
    ELSE ScanDepartments(departments, loc[1], loc[2])

\* university_name after the ProfilePage branch
ProfileName(obj, university_name) ==
    IF obj.type = <<"P", "r", "o", "f", "i", "l", "e", "P", "a", "g", "e">>
    THEN clean_text(Or(obj.mainEntityName, Or(obj.name, university_name)))
    ELSE university_name

\* university_name after the CollegeOrUniversity branch
OrganizationName(obj, university_name) ==
    IF obj.type = <<"C", "o", "l", "l", "e", "g", "e", "O", "r", "U", "n", "i", "v", "e", "r", "s", "i", "t", "y">>
    THEN clean_text(Or(obj.name, university_name))
    ELSE university_name

OrganizationLocation(obj, city, country) ==
    IF obj.type = <<"C", "o", "l", "l", "e", "g", "e", "O", "r", "U", "n", "i", "v", "e", "r", "s", "i", "t", "y">>
    THEN ScanDepartments(obj.department, city, country)
    ELSE <<city, country>>

\* the loop over the JSON-LD objects
RECURSIVE ScanJsonLd(_, _, _)
ScanJsonLd(objects, university_name, loc) ==
    IF objects = <<>> THEN <<university_name, loc[1], loc[2]>>
    ELSE ScanJsonLd(Tail(objects),
                    OrganizationName(Head(objects),
                                     ProfileName(Head(objects), university_name)),
                    OrganizationLocation(Head(objects), loc[1], loc[2]))

\* the return statement, with the fallback to the first heading
MetaRecord(found, h1) ==
    [name |-> IF found[1] = NA /\ h1 # Absent THEN clean_text(h1) ELSE found[1],
     city |-> found[2],
     country |-> found[3]]

extract_university_meta_from_topuniversities(html) ==
    MetaRecord(ScanJsonLd(html.jsonld, NA, <<NA, NA>>), html.h1)

(***************************************************************************)
(* Program links of a university page                                      *)
(***************************************************************************)
\* href.split("?")[0].split("#")[0].strip() of the cleaned href
BareHref(anchor) == Strip(UpTo(UpTo(clean_text(anchor), "?"), "#"))

PathParts(path) == SplitOn(StripCh(path, "/"), "/")

IsProgramParts(parts) ==
    Len(parts) >= 4 /\ Lower(parts[3]) \in ALLOWED_LEVEL_SEGMENTS

IsProgramHref(href, slug) ==
    /\ StartsWith(href, <<"/", "u", "n", "i", "v", "e", "r", "s", "i", "t", "i", "e", "s", "/">> \o slug \o <<"/">>)
    /\ IsProgramParts(PathParts(href))

\* links after an anchor whose bare href is href
WithHref(links, href, slug) ==
    IF ~IsProgramHref(href, slug) \/ \E i \in 1..Len(links) : links[i] = BASE_URL \o href
    THEN links
    ELSE Append(links, BASE_URL \o href)

\* the loop over the anchors; the seen set holds exactly the links
RECURSIVE CollectLinks(_, _, _)
CollectLinks(anchors, slug, links) ==
    IF anchors = <<>> THEN links
    ELSE IF clean_text(Head(anchors)) = NA THEN CollectLinks(Tail(anchors), slug, links)
    ELSE CollectLinks(Tail(anchors), slug, WithHref(links, BareHref(Head(anchors)), slug))

extract_program_links(university_html, slug) ==
    CollectLinks(university_html.anchors, slug, <<>>)

(***************************************************************************)
(* Course Classifier/Extractor                                             *)
(***************************************************************************)
\* dict.get(key) on a list of (key, value) entries written in order, last write
\* wins; Absent when the key was never written
RECURSIVE Lookup(_, _)
Lookup(entries, key) ==
    IF entries = <<>> THEN Absent
    ELSE IF entries[Len(entries)][1] = key THEN entries[Len(entries)][2]
    ELSE Lookup(SubSeq(entries, 1, Len(entries) - 1), key)

\* BadgeValue with the title removed from the front of the value instead
BadgeValueMutant(title, value) ==
    IF value # NA /\ title # NA /\ StartsWith(Lower(value), Lower(title))
    THEN clean_text(StripCh(Strip(SubSeq(value, Len(title) + 1, Len(value))), ":"))
    ELSE value

\* the value extract_badges stores for one badge
BadgeValue(title, value) ==
    IF value # NA /\ title # NA /\ EndsWith(Lower(value), Lower(title))
    THEN clean_text(DropLast(value, Len(title)))
    ELSE value

\* the entry extract_badges writes for one badge, title and value being cleaned
BadgeEntry(title, value) == << Lower(title), BadgeValue(title, value) >>

\* badges after one div.single-badge: a badge without a title tag or without a
\* value tag is passed over
WithBadge(entries, badge) ==
    IF badge.title_tag = Absent \/ badge.value_tag = Absent THEN entries
    ELSE Append(entries, BadgeEntry(clean_text(badge.title_tag[1]),
                                    clean_text(badge.value_tag[1])))

\* the (key, value) entries extract_badges writes, in document order; a tag is
\* <<its text>>, or Absent when select_one finds none
RECURSIVE extract_badges(_)
extract_badges(badge_tags) ==
    IF badge_tags = <<>> THEN <<>>
    ELSE WithBadge(extract_badges(SubSeq(badge_tags, 1, Len(badge_tags) - 1)),
                   badge_tags[Len(badge_tags)])

\* first write wins, and a value of N/A is not written
WithHighlight(highlights, key, value) ==
    IF Lookup(highlights, key) = Absent /\ value # NA
    THEN Append(highlights, <<key, value>>)
    ELSE highlights

\* the loop over the highlight blocks that have both tags
RECURSIVE extract_highlights(_)
extract_highlights(blocks) ==
    IF blocks = <<>> THEN <<>>
    ELSE WithHighlight(extract_highlights(SubSeq(blocks, 1, Len(blocks) - 1)),
                       Lower(clean_text(blocks[Len(blocks)].key)),
                       clean_text(blocks[Len(blocks)].value))

SegmentOf(path_parts) == IF Len(path_parts) >= 3 THEN Lower(path_parts[3]) ELSE <<>>

\* urlparse(course_url).path is what follows the site
url_level_segment(course_url) ==
    SegmentOf(PathParts(SubSeq(course_url, Len(BASE_URL) + 1, Len(course_url))))

\* normalize_level after its first line, value being the lower-cased clean text
LevelOf(value, course_url) ==
    IF Contains(value, <<"u", "n", "d", "e", "r", "g", "r", "a", "d", "u", "a", "t", "e">>) \/ Contains(value, <<"b", "a", "c", "h", "e", "l", "o", "r">>) THEN <<"B", "a", "c", "h", "e", "l", "o", "r">>
    ELSE IF Contains(value, <<"p", "o", "s", "t", "g", "r", "a", "d", "u", "a", "t", "e">>) \/ Contains(value, <<"m", "a", "s", "t", "e", "r">>) THEN <<"M", "a", "s", "t", "e", "r">>
    ELSE IF Contains(value, <<"p", "h", "d">>) \/ Contains(value, <<"d", "o", "c", "t", "o", "r", "a", "l">>) THEN <<"P", "h", "D">>
    ELSE IF Contains(value, <<"d", "i", "p", "l", "o", "m", "a">>) THEN <<"D", "i", "p", "l", "o", "m", "a">>
    ELSE IF Contains(value, <<"c", "e", "r", "t", "i", "f", "i", "c", "a", "t", "e">>) THEN <<"C", "e", "r", "t", "i", "f", "i", "c", "a", "t", "e">>
    ELSE IF Contains(value, <<"m", "b", "a">>) THEN <<"M", "B", "A">>
    ELSE LEVEL_BY_SEGMENT(url_level_segment(course_url))

normalize_level(raw_level, course_url) == LevelOf(Lower(clean_text(raw_level)), course_url)

\* the course record of a page, given its badges and highlights; the discipline
\* and eligibility columns, which no later step reads, are left out
CourseRecord(soup, course_url, university_id, page_badges, highlights) ==
    [university_id |-> university_id,
     course_name |-> IF soup.h1 # Absent THEN clean_text(soup.h1) ELSE NA,
     level |-> normalize_level(Or(Lookup(highlights, <<"s", "t", "u", "d", "y", " ", "l", "e", "v", "e", "l">>), NA), course_url),
     duration |-> clean_text(Or(Lookup(page_badges, <<"p", "r", "o", "g", "r", "a", "m", "m", "e", " ", "d", "u", "r", "a", "t", "i", "o", "n">>),
                                Lookup(page_badges, <<"d", "u", "r", "a", "t", "i", "o", "n">>))),
     fees |-> clean_text(Or(Lookup(page_badges, <<"t", "u", "i", "t", "i", "o", "n", " ", "f", "e", "e", "/", "y", "e", "a", "r">>),
                            Lookup(page_badges, <<"t", "u", "i", "t", "i", "o", "n", " ", "f", "e", "e">>)))]

\* scrape_course once the page is fetched
scrape_course(soup, course_url, university_id) ==
    CourseRecord(soup, course_url, university_id,
                 extract_badges(soup.badges), extract_highlights(soup.highlights))

(***************************************************************************)
(* Configuration and the pages the two sites can serve                     *)
(***************************************************************************)
UNIVERSITY_TARGETS ==
    << [slug |-> <<"u", "n", "i", "v", "e", "r", "s", "i", "t", "y", "-", "h", "y", "d", "e", "r", "a", "b", "a", "d">>,
        wiki_url |-> <<"h", "t", "t", "p", "s", ":", "/", "/", "e", "n", ".", "w", "i", "k", "i", "p", "e", "d", "i", "a", ".", "o", "r", "g", "/", "w", "i", "k", "i", "/", "U", "n", "i", "v", "e", "r", "s", "i", "t", "y", "_", "o", "f", "_", "H", "y", "d", "e", "r", "a", "b", "a", "d">>],
       [slug |-> <<"o", "s", "m", "a", "n", "i", "a", "-", "u", "n", "i", "v", "e", "r", "s", "i", "t", "y">>,
        wiki_url |-> <<"h", "t", "t", "p", "s", ":", "/", "/", "e", "n", ".", "w", "i", "k", "i", "p", "e", "d", "i", "a", ".", "o", "r", "g", "/", "w", "i", "k", "i", "/", "O", "s", "m", "a", "n", "i", "a", "_", "U", "n", "i", "v", "e", "r", "s", "i", "t", "y">>],
       [slug |-> <<"u", "n", "i", "v", "e", "r", "s", "i", "t", "y", "-", "m", "a", "d", "r", "a", "s">>,
        wiki_url |-> <<"h", "t", "t", "p", "s", ":", "/", "/", "e", "n", ".", "w", "i", "k", "i", "p", "e", "d", "i", "a", ".", "o", "r", "g", "/", "w", "i", "k", "i", "/", "U", "n", "i", "v", "e", "r", "s", "i", "t", "y", "_", "o", "f", "_", "M", "a", "d", "r", "a", "s">>],
       [slug |-> <<"n", "a", "t", "i", "o", "n", "a", "l", "-", "i", "n", "s", "t", "i", "t", "u", "t", "e", "-", "t", "e", "c", "h", "n", "o", "l", "o", "g", "y", "-", "w", "a", "r", "a", "n", "g", "a", "l">>,
        wiki_url |-> <<"h", "t", "t", "p", "s", ":", "/", "/", "e", "n", ".", "w", "i", "k", "i", "p", "e", "d", "i", "a", ".", "o", "r", "g", "/", "w", "i", "k", "i", "/", "N", "a", "t", "i", "o", "n", "a", "l", "_", "I", "n", "s", "t", "i", "t", "u", "t", "e", "_", "o", "f", "_", "T", "e", "c", "h", "n", "o", "l", "o", "g", "y", ",", "_", "W", "a", "r", "a", "n", "g", "a", "l">>],
       [slug |-> <<"n", "a", "t", "i", "o", "n", "a", "l", "-", "i", "n", "s", "t", "i", "t", "u", "t", "e", "-", "t", "e", "c", "h", "n", "o", "l", "o", "g", "y", "-", "c", "a", "l", "i", "c", "u", "t">>,
        wiki_url |-> <<"h", "t", "t", "p", "s", ":", "/", "/", "e", "n", ".", "w", "i", "k", "i", "p", "e", "d", "i", "a", ".", "o", "r", "g", "/", "w", "i", "k", "i", "/", "N", "a", "t", "i", "o", "n", "a", "l", "_", "I", "n", "s", "t", "i", "t", "u", "t", "e", "_", "o", "f", "_", "T", "e", "c", "h", "n", "o", "l", "o", "g", "y", "_", "C", "a", "l", "i", "c", "u", "t">>],
       [slug |-> <<"i", "n", "d", "i", "a", "n", "-", "i", "n", "s", "t", "i", "t", "u", "t", "e", "-", "t", "e", "c", "h", "n", "o", "l", "o", "g", "y", "-", "m", "a", "n", "d", "i">>,
        wiki_url |-> <<"h", "t", "t", "p", "s", ":", "/", "/", "e", "n", ".", "w", "i", "k", "i", "p", "e", "d", "i", "a", ".", "o", "r", "g", "/", "w", "i", "k", "i", "/", "I", "n", "d", "i", "a", "n", "_", "I", "n", "s", "t", "i", "t", "u", "t", "e", "_", "o", "f", "_", "T", "e", "c", "h", "n", "o", "l", "o", "g", "y", "_", "M", "a", "n", "d", "i">>] >>

\* the first n configured targets (n beyond the list repeats it)
TargetList(n) == [i \in 1..n |-> UNIVERSITY_TARGETS[((i - 1) % Len(UNIVERSITY_TARGETS)) + 1]]

\* structured data of ranking-site pages
MetaFull ==
    [jsonld |-> << [type |-> <<"P", "r", "o", "f", "i", "l", "e", "P", "a", "g", "e">>, name |-> Absent,
                    mainEntityName |-> <<"a", "l", "p", "h", "a", " ", " ", "u", "n", "i", "v", "e", "r", "s", "i", "t", "y">>, department |-> <<>>],
                   [type |-> <<"C", "o", "l", "l", "e", "g", "e", "O", "r", "U", "n", "i", "v", "e", "r", "s", "i", "t", "y">>, name |-> <<"A", "l", "p", "h", "a", " ", "U", "n", "i", "v", "e", "r", "s", "i", "t", "y">>,
                    mainEntityName |-> Absent,
                    department |-> << [addressLocality |-> <<"h", "y", "d", "e", "r", "a", "b", "a", "d">>,
                                       addressCountry |-> <<"i", "n", "d", "i", "a">>] >>] >>,
     h1 |-> <<"A", "l", "p", "h", "a">>]
MetaNone == [jsonld |-> <<>>, h1 |-> Absent]
MetaShout ==
    [jsonld |-> << [type |-> <<"C", "o", "l", "l", "e", "g", "e", "O", "r", "U", "n", "i", "v", "e", "r", "s", "i", "t", "y">>, name |-> Absent,
                    mainEntityName |-> Absent,
                    department |-> << [addressLocality |-> Absent,
                                       addressCountry |-> Absent],
                                      [addressLocality |-> Absent,
                                       addressCountry |-> <<"I", "N", "D", "I", "A">>] >>] >>,
     h1 |-> <<" ", "G", "a", "m", "m", "a", " ", " ", "C", "o", "l", "l", "e", "g", "e">>]

\* encyclopedia pages
WikiAlpha ==
    [heading |-> <<"A", "l", "p", "h", "a", " ", "U", "n", "i", "v", "e", "r", "s", "i", "t", "y">>,
     infobox |-> << [th |-> <<"T", "y", "p", "e">>, td |-> <<"P", "u", "b", "l", "i", "c">>, href |-> Absent],
                    [th |-> <<"L", "o", "c", "a", "t", "i", "o", "n">>, td |-> <<"H", "y", "d", "e", "r", "a", "b", "a", "d", ",", " ", "T", "e", "l", "a", "n", "g", "a", "n", "a", ",", " ", "I", "n", "d", "i", "a", "[", "1", "]">>,
                     href |-> Absent],
                    [th |-> <<"W", "e", "b", "s", "i", "t", "e">>, td |-> <<"a", "l", "p", "h", "a", ".", "e", "d", "u">>, href |-> <<"/", "/", "a", "l", "p", "h", "a", ".", "e", "d", "u">>] >>]
WikiBeta ==
    [heading |-> <<"B", "e", "t", "a", " ", "I", "n", "s", "t", "i", "t", "u", "t", "e">>,
     infobox |-> << [th |-> <<"A", "d", "d", "r", "e", "s", "s">>, td |-> <<"c", "h", "e", "n", "n", "a", "i", " ", ",", " ", "6", "0", "0", "0", "3", "6", ",", " ", "i", "n", "d", "i", "a", " ", "[", "2", "]">>,
                     href |-> Absent] >>]
WikiPlain ==
    [heading |-> Absent,
     infobox |-> << [th |-> <<"w", "e", "b", "s", "i", "t", "e">>, td |-> <<"w", "w", "w", ".", "a", "l", "p", "h", "a", ".", "e", "d", "u">>, href |-> Absent] >>]

\* course pages
CourseDataScience ==
    [h1 |-> <<"D", "a", "t", "a", " ", "S", "c", "i", "e", "n", "c", "e">>, highlights |-> <<>>,
     badges |-> << [title_tag |-> << <<"D", "u", "r", "a", "t", "i", "o", "n">> >>,
                     value_tag |-> << <<"2", " ", "Y", "e", "a", "r", "s", " ", "D", "u", "r", "a", "t", "i", "o", "n">> >>] >>]
CourseDataScienceMasters ==
    [h1 |-> <<"d", "a", "t", "a", " ", " ", "s", "c", "i", "e", "n", "c", "e">>,
     highlights |-> << [key |-> <<"S", "t", "u", "d", "y", " ", "L", "e", "v", "e", "l">>, value |-> <<"P", "o", "s", "t", "g", "r", "a", "d", "u", "a", "t", "e", " ", "(", "M", "a", "s", "t", "e", "r", "s", ")">>] >>,
     badges |-> << [title_tag |-> << <<"T", "u", "i", "t", "i", "o", "n", " ", "F", "e", "e", "/", "Y", "e", "a", "r">> >>,
                     value_tag |-> << <<"1", ",", "0", "0", "0", " ", "U", "S", "D">> >>],
                    [title_tag |-> Absent, value_tag |-> << <<"F", "u", "l", "l", " ", "t", "i", "m", "e">> >>] >>]

\* the level segment of the i-th program anchor of a university page
LevelSegments ==
    << <<"m", "a", "s", "t", "e", "r", "s">>, <<"u", "n", "d", "e", "r", "g", "r", "a", "d">>, <<"P", "h", "D">>, <<"m", "b", "a">>, <<"d", "i", "p", "l", "o", "m", "a">>, <<"c", "e", "r", "t">>,
       <<"f", "o", "u", "n", "d", "a", "t", "i", "o", "n">>, <<"p", "o", "s", "t", "g", "r", "a", "d">> >>
ProgramHref(slug, i) ==
    <<"/", "u", "n", "i", "v", "e", "r", "s", "i", "t", "i", "e", "s", "/">> \o slug \o <<"/">> \o LevelSegments[((i - 1) % 8) + 1]
        \o <<"/", "p">> \o Digits(i)
\* anchors of a university page with k program links: a navigation link first,
\* then the program links, the first one repeated with a query string, and a
\* link into another university's pages
Anchors(slug, k) ==
    << <<"/", "r", "a", "n", "k", "i", "n", "g", "s">> >> \o [i \in 1..k |-> ProgramHref(slug, i)]
        \o (IF k >= 1 THEN << ProgramHref(slug, 1) \o <<"?", "t", "a", "b", "=", "f", "e", "e", "s">> >> ELSE <<>>)
        \o << <<"/", "u", "n", "i", "v", "e", "r", "s", "i", "t", "i", "e", "s", "/", "o", "t", "h", "e", "r", "/", "m", "a", "s", "t", "e", "r", "s", "/", "p", "1">>, <<"/", "u", "n", "i", "v", "e", "r", "s", "i", "t", "i", "e", "s", "/">> \o slug \o <<"/", "m", "o", "r", "e">> >>

\* the pages the ranking site may answer for a slug
UniversityPages(slug, metas, link_counts) ==
    { [jsonld |-> m.jsonld, h1 |-> m.h1, anchors |-> Anchors(slug, k)] :
        m \in metas, k \in link_counts }

\* The two kinds of run explored.  "wide": several targets, whose pages offer
\* few program links.  "long": one target, whose page offers many.
Webs == {"wide", "long"}
Targets(w) == IF w = "wide" THEN TargetList(NumTargets) ELSE TargetList(1)
Metas(w) == IF w = "wide" THEN {MetaFull, MetaNone, MetaShout} ELSE {MetaFull}
Wikis(w) == IF w = "wide" THEN {WikiBeta} ELSE {WikiAlpha, WikiPlain}
LinkCounts(w) == IF w = "wide" THEN 0..ShortLinks ELSE {MaxLinks}
CoursePages(w) ==
    IF w = "wide" THEN {CourseDataScience}
    ELSE {CourseDataScience, CourseDataScienceMasters}

\* f"{BASE_URL}/universities/{slug}"
TopuniUrl(slug) == BASE_URL \o <<"/", "u", "n", "i", "v", "e", "r", "s", "i", "t", "i", "e", "s", "/">> \o slug

\* the bodies a URL can answer a request with
Responses(w, url) ==
    IF StartsWith(url, <<"h", "t", "t", "p", "s", ":", "/", "/", "e", "n", ".", "w", "i", "k", "i", "p", "e", "d", "i", "a", ".", "o", "r", "g", "/">>) THEN Wikis(w)
    ELSE IF \E i \in 1..Len(Targets(w)) : url = TopuniUrl(Targets(w)[i].slug)
    THEN LET i == CHOOSE i \in 1..Len(Targets(w)) : url = TopuniUrl(Targets(w)[i].slug)
         IN  UniversityPages(Targets(w)[i].slug, Metas(w), LinkCounts(w))
    ELSE CoursePages(w)

\* what one request attempt can end in: a response with a status code and a
\* body, or a RequestException
ErrorPage == [error |-> TRUE]
FailedAttempts ==
    { [kind |-> "response", status_code |-> 404, text |-> <<ErrorPage>>],
      [kind |-> "exception", status_code |-> 0, text |-> Absent] }
OkAttempts(pool) ==
    { [kind |-> "response", status_code |-> 200, text |-> <<body>>] : body \in pool }

(***************************************************************************)
(* fetch_html                                                              *)
(***************************************************************************)
\* what the server does on each of n successive attempts on a URL with these bodies
ResponseSeqs(pool, n) == [1..n -> FailedAttempts \cup OkAttempts(pool)]
\* the same, for a URL whose body does not change between the attempts
StableResponseSeqs(pool, n) ==
    UNION { [1..n -> FailedAttempts \cup OkAttempts({body})] : body \in pool }

\* IsSuccess with any response taken for a success
IsSuccessMutant(outcome) == outcome.kind = "response"

\* response.status_code == 200, for an attempt that raised no RequestException
IsSuccess(outcome) == outcome.kind = "response" /\ outcome.status_code = 200

\* the for loop from iteration attempt on; text is the return value (Absent for
\* None), attempts the number of requests made
RECURSIVE FetchLoop(_, _, _)
FetchLoop(responses, attempt, retries) ==
    IF attempt > retries THEN [text |-> Absent, attempts |-> attempt - 1]
    ELSE IF IsSuccess(responses[attempt])
    THEN [text |-> responses[attempt].text, attempts |-> attempt]
    ELSE FetchLoop(responses, attempt + 1, retries)

fetch_html(responses, retries) == FetchLoop(responses, 1, retries)

\* the values a call of fetch_html(session, url) can return
Fetched(w, url) ==
    { fetch_html(responses, DefaultRetries).text :
        responses \in StableResponseSeqs(Responses(w, url), DefaultRetries) }

(***************************************************************************)
(* State                                                                   *)
(***************************************************************************)
VARIABLES
    web,                 \* the kind of run: which targets are configured, which pages exist
    pc,                  \* position of main()
    idx,                 \* enumerate index of the current target
    university_html,     \* <<page>> of the current target
    reconciled,          \* the two partial records of the current target and their merge
    universities,        \* list of university records
    courses,             \* list of course records
    global_course_keys,  \* set of dedupe keys
    program_links,       \* links of the current university
    linkPos,             \* position of the for loop over program_links
    collected,           \* courses accepted for the current university
    lastOutcome,         \* how the last iteration of the loop over program_links ended
    targetLog,           \* what happened to each target
    universities_df,     \* result of clean_universities
    provisional_df,      \* result of clean_courses
    courses_df,          \* courses table after the final filter and renumbering
    exported,            \* export_to_excel was called
    fResponses,          \* stand-alone fetch_html call: what the attempts are answered
    fRetries,            \* its retries argument
    fAttempt,            \* its loop variable attempt
    fReturn,             \* its return value and number of requests
    badge_tags,          \* stand-alone extract_badges call: the badges of the page
    badges,              \* its result
    meta_html,           \* stand-alone structured-data extraction: the page
    meta                 \* its result

vars == << web, pc, idx, university_html, reconciled, universities, courses,
           global_course_keys, program_links, linkPos, collected, lastOutcome,
           targetLog, universities_df, provisional_df, courses_df, exported,
           fResponses, fRetries, fAttempt, fReturn, badge_tags, badges,
           meta_html, meta >>

loopVars == << program_links, linkPos, collected, lastOutcome >>
tableVars == << universities_df, provisional_df, courses_df, exported >>
aloneVars ==
    << fResponses, fRetries, fAttempt, fReturn, badge_tags, badges, meta_html, meta >>

NoRecord == <<>>

\* main() before its loop
MainInit ==
    /\ idx = 1
    /\ university_html = Absent
    /\ reconciled = NoRecord
    /\ universities = <<>>
    /\ courses = <<>>
    /\ global_course_keys = {}
    /\ program_links = <<>>
    /\ linkPos = 1
    /\ collected = 0
    /\ lastOutcome = "-"
    /\ targetLog = [i \in 1..Len(Targets(web)) |->
                      [status |-> "pending", country |-> NA, row |-> 0]]
    /\ universities_df = <<>>
    /\ provisional_df = <<>>
    /\ courses_df = <<>>
    /\ exported = FALSE

NoFetchCall ==
    /\ fResponses = <<>>
    /\ fRetries = DefaultRetries
    /\ fAttempt = 1
    /\ fReturn = NoRecord

NoBadgeCall ==
    /\ badge_tags = <<>>
    /\ badges = <<>>

NoMetaCall ==
    /\ meta_html = MetaNone
    /\ meta = NoRecord

Init ==
    /\ web \in Webs
    /\ pc = "loop_head"
    /\ MainInit
    /\ NoFetchCall
    /\ NoBadgeCall
    /\ NoMetaCall

(***************************************************************************)
(* Reconciler, Deduplicator and Relational Assembler                       *)
(***************************************************************************)
\* UniversityId numbered from zero
UniversityIdMutant(i) == FormatId("U", i - 1, 3)

\* f"U{idx:03d}"
UniversityId(i) == FormatId("U", i, 3)
\* f"C{i + 1:04d}" for the row at 0-based position i
CourseId(i) == FormatId("C", i + 1, 4)

\* Prefer with the precedence of the two sources exchanged
PreferMutant(primary, secondary) == IF secondary # NA THEN secondary ELSE primary

\* "primary if primary != 'N/A' else secondary"
Prefer(primary, secondary) == IF primary # NA THEN primary ELSE secondary

\* the three reconciled fields of a target
Reconcile(topuni, wiki) ==
    [name |-> Prefer(topuni.name, wiki.name),
     city |-> Prefer(topuni.city, wiki.city),
     country |-> Prefer(topuni.country, wiki.country)]

\* Retained with the country compared case-insensitively
RetainedMutant(normalized_country) == Lower(normalized_country) = Lower(TARGET_COUNTRY)

\* the negation of "normalized_country != TARGET_COUNTRY"
Retained(normalized_country) == normalized_country = TARGET_COUNTRY

\* DedupeKey with the course name compared as written
DedupeKeyMutant(course) ==
    << Lower(course.university_id), course.course_name, Lower(course.level) >>

DedupeKey(course) ==
    << Lower(course.university_id), Lower(course.course_name), Lower(course.level) >>

\* LoopFinished with the break one course late
LoopFinishedMutant(links, pos, count) ==
    pos > Len(links) \/ count > MIN_COURSES_PER_UNIVERSITY

\* the for loop over program_links is over: list exhausted, or the break
LoopFinished(links, pos, count) ==
    pos > Len(links) \/ count >= MIN_COURSES_PER_UNIVERSITY

\* DataFrame.drop_duplicates(subset, keep="first"); keys[i] holds the subset
\* columns of rows[i]
RECURSIVE DropDuplicates(_, _)
DropDuplicates(rows, keys) ==
    IF rows = <<>> THEN <<>>
    ELSE IF \E i \in 1..(Len(rows) - 1) : keys[i] = keys[Len(rows)]
    THEN DropDuplicates(SubSeq(rows, 1, Len(rows) - 1), SubSeq(keys, 1, Len(rows) - 1))
    ELSE Append(DropDuplicates(SubSeq(rows, 1, Len(rows) - 1),
                               SubSeq(keys, 1, Len(rows) - 1)),
                rows[Len(rows)])

UniversityKey(row) == << row.university_name, row.country, row.city >>
CourseKey(row) == << row.university_id, row.course_name, row.level >>

\* the website column: kept only when it starts with http
HttpOnly(website) == IF StartsWith(website, <<"h", "t", "t", "p">>) THEN website ELSE NA

\* the column normalisations of clean_universities
CleanUniversityRows(rows) ==
    [i \in 1..Len(rows) |->
        [university_id |-> clean_text(rows[i].university_id),
         university_name |-> clean_text(rows[i].university_name),
         country |-> smart_title_case(clean_text(rows[i].country)),
         city |-> smart_title_case(clean_text(rows[i].city)),
         website |-> HttpOnly(clean_text(rows[i].website))]]

UniqueUniversities(cleaned) ==
    DropDuplicates(cleaned, [i \in 1..Len(cleaned) |-> UniversityKey(cleaned[i])])

clean_universities(rows) == UniqueUniversities(CleanUniversityRows(rows))

\* the column normalisations of clean_courses
CleanCourseRows(rows) ==
    [i \in 1..Len(rows) |->
        [university_id |-> clean_text(rows[i].university_id),
         course_name |-> clean_text(rows[i].course_name),
         level |-> clean_text(rows[i].level),
         duration |-> clean_text(rows[i].duration),
         fees |-> clean_text(rows[i].fees)]]

UniqueCourses(cleaned) ==
    DropDuplicates(cleaned, [i \in 1..Len(cleaned) |-> CourseKey(cleaned[i])])

\* df.insert(0, "course_id", ...)
InsertCourseIds(unique) ==
    [i \in 1..Len(unique) |->
        [course_id |-> CourseId(i - 1),
         university_id |-> unique[i].university_id,
         course_name |-> unique[i].course_name,
         level |-> unique[i].level,
         duration |-> unique[i].duration,
         fees |-> unique[i].fees]]

clean_courses(rows) == InsertCourseIds(UniqueCourses(CleanCourseRows(rows)))

\* KeepValid with the filter left out
KeepValidMutant(df, valid_university_ids) == df

\* courses_df[courses_df["university_id"].isin(valid_university_ids)]
KeepValid(df, valid_university_ids) ==
    LET InValid(row) == row.university_id \in valid_university_ids IN
    SelectSeq(df, InValid)

\* Renumber with the provisional identifiers kept
RenumberMutant(df) == df

\* courses_df["course_id"] = [f"C{i + 1:04d}" for i in range(len(courses_df))]
Renumber(df) == [i \in 1..Len(df) |-> [df[i] EXCEPT !.course_id = CourseId(i - 1)]]

(***************************************************************************)
(* main()                                                                  *)
(***************************************************************************)
\* the locals of one iteration of the loop over the targets are dead after it
ClearLocals ==
    /\ university_html' = Absent
    /\ program_links' = <<>>
    /\ linkPos' = 1
    /\ collected' = 0
    /\ lastOutcome' = "-"

LogTarget(status, country, row) ==
    targetLog' = [targetLog EXCEPT ![idx] =
                    [status |-> status, country |-> country, row |-> row]]

\* top of the loop over the targets: fetch the university page, and skip the
\* target when it does not come
FetchUniversity ==
    /\ pc = "loop_head"
    /\ idx <= Len(Targets(web))
    /\ \E html \in Fetched(web, TopuniUrl(Targets(web)[idx].slug)) :
          IF html = Absent
          THEN /\ LogTarget("fetch_failed", NA, 0)
               /\ idx' = idx + 1
               /\ UNCHANGED << pc, university_html >>
          ELSE /\ university_html' = html
               /\ pc' = "reconcile"
               /\ UNCHANGED << idx, targetLog >>
    /\ reconciled' = NoRecord
    /\ UNCHANGED << web, universities, courses, global_course_keys, loopVars,
                    tableVars, aloneVars >>

\* the record appended to universities
UniversityRecord(i, merged, normalized_country, website) ==
    [university_id |-> UniversityId(i),
     university_name |-> clean_text(merged.name),
     country |-> normalized_country,
     city |-> smart_title_case(merged.city),
     website |-> clean_text(website)]

\* the country filter and what follows it in the iteration
FilterTarget(merged, normalized_country, website) ==
    IF ~Retained(normalized_country)
    THEN /\ LogTarget("filtered", normalized_country, 0)
         /\ idx' = idx + 1
         /\ pc' = "loop_head"
         /\ ClearLocals
         /\ UNCHANGED universities
    ELSE /\ universities' = Append(universities,
                                   UniversityRecord(idx, merged, normalized_country, website))
         /\ LogTarget("retained", normalized_country, Len(universities) + 1)
         /\ program_links' = extract_program_links(university_html[1],
                                                   Targets(web)[idx].slug)
         /\ collected' = 0
         /\ linkPos' = 1
         /\ lastOutcome' = "-"
         /\ pc' = "course_loop"
         /\ UNCHANGED << idx, university_html >>

\* the merge of the two partial records
MergeTarget(topuni, wiki, merged) ==
    /\ reconciled' = [primary |-> topuni, secondary |-> wiki, merged |-> merged]
    /\ FilterTarget(merged, smart_title_case(merged.country), wiki.website)

\* both extractions, the merge and the country filter
ReconcileTarget ==
    /\ pc = "reconcile"
    /\ \E wiki_html \in Fetched(web, Targets(web)[idx].wiki_url) :
       \E topuni \in {extract_university_meta_from_topuniversities(university_html[1])} :
       \E wiki \in {extract_website_from_wikipedia(wiki_html)} :
           MergeTarget(topuni, wiki, Reconcile(topuni, wiki))
    /\ UNCHANGED << web, courses, global_course_keys, tableVars, aloneVars >>

\* what main() does with a course scrape_course returned
KeepCourse(course, dedupe_key) ==
    IF dedupe_key \in global_course_keys
    THEN /\ lastOutcome' = "duplicate"
         /\ UNCHANGED << courses, global_course_keys, collected >>
    ELSE /\ global_course_keys' = global_course_keys \cup {dedupe_key}
         /\ courses' = Append(courses, course)
         /\ collected' = collected + 1
         /\ lastOutcome' = "added"

\* one iteration of the loop over program_links: scrape_course returns None,
\* raises or returns a course, which is then kept unless its key is known
ScrapeLink ==
    /\ pc = "course_loop"
    /\ ~LoopFinished(program_links, linkPos, collected)
    /\ \E html \in Fetched(web, program_links[linkPos]) :
          IF html = Absent
          THEN /\ lastOutcome' = "none"
               /\ UNCHANGED << courses, global_course_keys, collected >>
          ELSE \E raises \in BOOLEAN :
               IF raises
               THEN /\ lastOutcome' = "raised"
                    /\ UNCHANGED << courses, global_course_keys, collected >>
               ELSE \E course \in {scrape_course(html[1], program_links[linkPos],
                                                 UniversityId(idx))} :
                        KeepCourse(course, DedupeKey(course))
    /\ linkPos' = linkPos + 1
    /\ UNCHANGED << web, pc, idx, university_html, reconciled, universities,
                    program_links, targetLog, tableVars, aloneVars >>

\* the loop over program_links is over: on to the next target
EndCourseLoop ==
    /\ pc = "course_loop"
    /\ LoopFinished(program_links, linkPos, collected)
    /\ idx' = idx + 1
    /\ pc' = "loop_head"
    /\ ClearLocals
    /\ reconciled' = NoRecord
    /\ UNCHANGED << web, universities, courses, global_course_keys, targetLog,
                    tableVars, aloneVars >>

UniversityIds(df) == { df[i].university_id : i \in 1..Len(df) }

\* the two empty checks, then the final filter, the renumbering and the export
FinishTables(udf, cdf) ==
    /\ universities_df' = udf
    /\ provisional_df' = cdf
    /\ IF udf = <<>> \/ cdf = <<>>
       THEN /\ courses_df' = cdf
            /\ exported' = FALSE
       ELSE /\ courses_df' = Renumber(KeepValid(cdf, UniversityIds(udf)))
            /\ exported' = TRUE

\* after the loop over the targets: cleaning, the two empty checks, the final
\* filter and renumbering, and the export
Assemble ==
    /\ pc = "loop_head"
    /\ idx > Len(Targets(web))
    /\ \E udf \in {clean_universities(universities)} :
       \E cdf \in {clean_courses(courses)} :
           FinishTables(udf, cdf)
    /\ pc' = "done"
    /\ reconciled' = NoRecord
    /\ UNCHANGED << web, idx, university_html, universities, courses,
                    global_course_keys, loopVars, targetLog, aloneVars >>

Next ==
    \/ FetchUniversity
    \/ ReconcileTarget
    \/ ScrapeLink
    \/ EndCourseLoop
    \/ Assemble

Spec == Init /\ [][Next]_vars

(***************************************************************************)
(* fetch_html on its own, attempt by attempt, for any retry bound and any  *)
(* answers                                                                 *)
(***************************************************************************)
FetchInit ==
    /\ web = "long"
    /\ pc = "fetch_html"
    /\ MainInit
    /\ fRetries \in 0..MaxRetries
    /\ fResponses \in ResponseSeqs(CoursePages(web), MaxRetries)
    /\ fAttempt = 1
    /\ fReturn = NoRecord
    /\ NoBadgeCall
    /\ NoMetaCall

fetchFrame ==
    << web, idx, university_html, reconciled, universities, courses,
       global_course_keys, loopVars, targetLog, tableVars, fResponses, fRetries,
       badge_tags, badges, meta_html, meta >>

\* one iteration of the for loop: the request, and the return on a 200
FetchAttempt ==
    /\ pc = "fetch_html"
    /\ fAttempt <= fRetries
    /\ IF IsSuccess(fResponses[fAttempt])
       THEN /\ fReturn' = [text |-> fResponses[fAttempt].text, attempts |-> fAttempt]
            /\ pc' = "returned"
            /\ UNCHANGED fAttempt
       ELSE /\ fAttempt' = fAttempt + 1
            /\ UNCHANGED << pc, fReturn >>
    /\ UNCHANGED fetchFrame

\* the range is exhausted: return None
FetchGiveUp ==
    /\ pc = "fetch_html"
    /\ fAttempt > fRetries
    /\ fReturn' = [text |-> Absent, attempts |-> fAttempt - 1]
    /\ pc' = "returned"
    /\ UNCHANGED << fAttempt, fetchFrame >>

FetchNext ==
    \/ FetchAttempt
    \/ FetchGiveUp

\* a call that has started runs on: every sleep and every request is bounded
FetchSpec == FetchInit /\ [][FetchNext]_vars /\ WF_vars(FetchNext)

(***************************************************************************)
(* extract_badges on its own                                               *)
(***************************************************************************)
BadgeTitles == { << <<"D", "u", "r", "a", "t", "i", "o", "n">> >>, << <<"T", "u", "i", "t", "i", "o", "n", " ", "F", "e", "e">> >>, Absent }
BadgeTexts ==
    { << <<"D", "u", "r", "a", "t", "i", "o", "n", ":", " ", "2", " ", "Y", "e", "a", "r", "s">> >>, << <<"2", " ", "Y", "e", "a", "r", "s", " ", "d", "u", "r", "a", "t", "i", "o", "n">> >>, << <<"t", "u", "i", "t", "i", "o", "n", " ", "f", "e", "e">> >>,
      << <<"D", "U", "R", "A", "T", "I", "O", "N">> >>, << <<" ">> >>, Absent }
BadgeTags == { [title_tag |-> t, value_tag |-> v] : t \in BadgeTitles, v \in BadgeTexts }

RECURSIVE SeqsUpTo(_, _)
SeqsUpTo(S, n) ==
    IF n = 0 THEN { <<>> }
    ELSE SeqsUpTo(S, n - 1) \cup { Append(s, x) : s \in SeqsUpTo(S, n - 1), x \in S }

BadgeInit ==
    /\ web = "long"
    /\ pc = "extract_badges"
    /\ MainInit
    /\ NoFetchCall
    /\ NoMetaCall
    /\ badge_tags \in SeqsUpTo(BadgeTags, MaxBadges)
    /\ badges = <<>>

ExtractBadges ==
    /\ pc = "extract_badges"
    /\ badges' = extract_badges(badge_tags)
    /\ pc' = "returned"
    /\ UNCHANGED << web, idx, university_html, reconciled, universities, courses,
                    global_course_keys, loopVars, targetLog, tableVars, fResponses,
                    fRetries, fAttempt, fReturn, badge_tags, meta_html, meta >>

BadgeNext == ExtractBadges

BadgeSpec == BadgeInit /\ [][BadgeNext]_vars

(***************************************************************************)
(* extract_university_meta_from_topuniversities on its own                 *)
(***************************************************************************)
\* the address of a department: either field may be missing
Localities == { <<"h", "y", "d", "e", "r", "a", "b", "a", "d">>, <<"n", "e", "w", " ", " ", "d", "e", "l", "h", "i">>, Absent }
Countries == { <<"i", "n", "d", "i", "a">>, Absent }
Departments == { [addressLocality |-> l, addressCountry |-> c] : l \in Localities, c \in Countries }

\* a ranking-site page whose organization object has these departments
OrganizationPage(departments) ==
    [jsonld |-> << [type |-> <<"C", "o", "l", "l", "e", "g", "e", "O", "r", "U", "n", "i", "v", "e", "r", "s", "i", "t", "y">>, name |-> <<"A", "l", "p", "h", "a", " ", "U", "n", "i", "v", "e", "r", "s", "i", "t", "y">>,
                    mainEntityName |-> Absent, department |-> departments] >>,
     h1 |-> <<"A", "l", "p", "h", "a">>]

MetaInit ==
    /\ web = "long"
    /\ pc = "extract_university_meta"
    /\ MainInit
    /\ NoFetchCall
    /\ NoBadgeCall
    /\ meta_html \in { OrganizationPage(d) : d \in SeqsUpTo(Departments, MaxDepartments) }
    /\ meta = NoRecord

ExtractMeta ==
    /\ pc = "extract_university_meta"
    /\ meta' = extract_university_meta_from_topuniversities(meta_html)
    /\ pc' = "returned"
    /\ UNCHANGED << web, idx, university_html, reconciled, universities, courses,
                    global_course_keys, loopVars, targetLog, tableVars, fResponses,
                    fRetries, fAttempt, fReturn, badge_tags, badges, meta_html >>

MetaNext == ExtractMeta

MetaSpec == MetaInit /\ [][MetaNext]_vars

(***************************************************************************)
(* Properties                                                              *)
(***************************************************************************)
\* "U" followed by n as three decimal digits, written out digit by digit
IdentifierOfTarget(n) ==
    << "U", DigitChars[((n \div 100) % 10) + 1], DigitChars[((n \div 10) % 10) + 1],
       DigitChars[(n % 10) + 1] >>

\* "C" followed by n as four decimal digits, written out digit by digit
IdentifierOfCourse(n) ==
    << "C", DigitChars[((n \div 1000) % 10) + 1], DigitChars[((n \div 100) % 10) + 1],
       DigitChars[((n \div 10) % 10) + 1], DigitChars[(n % 10) + 1] >>

\* the case-insensitive identity of a course row
IdentityOfCourse(row) ==
    << row.university_id, Lower(row.course_name), Lower(row.level) >>

\* C1: whenever the output artifact is written, every row of the exported
\* Courses table has a university_id that is the university_id of some row of
\* the exported Universities table, also when clean_universities dropped a
\* university whose courses had already been collected.
C1_ReferentialIntegrity ==
    exported =>
        \A i \in 1..Len(courses_df) :
            \E j \in 1..Len(universities_df) :
                courses_df[i].university_id = universities_df[j].university_id

\* a written artifact whose Courses table is not empty, from a run in which a
\* collected course belongs to a university that clean_universities dropped
C1_OrphanFiltered ==
    /\ exported
    /\ courses_df # <<>>
    /\ \E i \in 1..Len(provisional_df) :
          \A j \in 1..Len(universities_df) :
              provisional_df[i].university_id # universities_df[j].university_id

\* C2: in the exported Courses table with n rows the course_id values are, in
\* row order, C0001, C0002, ..., Cn without gap or repeat, also when the final
\* filter removed rows that had received a provisional course_id.
C2_ContiguousCourseIds ==
    exported =>
        \A i \in 1..Len(courses_df) : courses_df[i].course_id = IdentifierOfCourse(i)

\* a written artifact in which a course has another course_id than the
\* provisional one clean_courses gave it, a row before it having been removed
C2_RenumberedAfterGap ==
    /\ exported
    /\ \E i \in 1..Len(courses_df) :
       \E j \in 1..Len(provisional_df) :
          /\ j > i
          /\ provisional_df[j].university_id = courses_df[i].university_id
          /\ provisional_df[j].course_name = courses_df[i].course_name
          /\ provisional_df[j].level = courses_df[i].level
          /\ provisional_df[j].course_id # courses_df[i].course_id

\* C3: for every target whose reconciled country, after smart_title_case, is
\* not exactly TARGET_COUNTRY, no university row and no course row carries the
\* target's university_id, neither in the collected lists nor in the final
\* tables, and the loop over course links never runs for it.
C3_CountryFilter ==
    \A i \in 1..Len(targetLog) :
        (targetLog[i].status \in {"filtered", "retained"}
            /\ targetLog[i].country # TARGET_COUNTRY) =>
            /\ \A k \in 1..Len(universities) :
                  universities[k].university_id # IdentifierOfTarget(i)
            /\ \A k \in 1..Len(universities_df) :
                  universities_df[k].university_id # IdentifierOfTarget(i)
            /\ \A k \in 1..Len(courses) :
                  courses[k].university_id # IdentifierOfTarget(i)
            /\ \A k \in 1..Len(provisional_df) :
                  provisional_df[k].university_id # IdentifierOfTarget(i)
            /\ \A k \in 1..Len(courses_df) :
                  courses_df[k].university_id # IdentifierOfTarget(i)
            /\ \A key \in global_course_keys : key[1] # Lower(IdentifierOfTarget(i))
            /\ ~(idx = i /\ pc = "course_loop")

\* a finished run that wrote the artifact and in which a target with a
\* resolved country other than TARGET_COUNTRY was reconciled
C3_TargetFilteredOut ==
    /\ pc = "done"
    /\ exported
    /\ \E i \in 1..Len(targetLog) :
          /\ targetLog[i].status = "filtered"
          /\ targetLog[i].country # NA
          /\ targetLog[i].country # TARGET_COUNTRY

\* no two rows of a list of courses share the case-insensitive identity
UniqueIdentities(rows) ==
    \A i \in 1..Len(rows) :
        \A j \in (i + 1)..Len(rows) :
            IdentityOfCourse(rows[i]) # IdentityOfCourse(rows[j])

\* each row of the exported table is, column by column, a collected course
EveryExportedCourseCollected ==
    \A i \in 1..Len(courses_df) :
        \E j \in 1..Len(courses) :
            /\ courses_df[i].university_id = courses[j].university_id
            /\ courses_df[i].course_name = courses[j].course_name
            /\ courses_df[i].level = courses[j].level
            /\ courses_df[i].duration = courses[j].duration
            /\ courses_df[i].fees = courses[j].fees

\* a step keeps every course collected so far in its place and unaltered, and
\* adds at most one course, whose identity none of them has
FirstOccurrenceKept ==
    /\ Len(courses') \in { Len(courses), Len(courses) + 1 }
    /\ SubSeq(courses', 1, Len(courses)) = courses
    /\ Len(courses') = Len(courses) + 1 =>
          \A k \in 1..Len(courses) :
              IdentityOfCourse(courses[k]) # IdentityOfCourse(courses'[Len(courses')])
    /\ lastOutcome' = "duplicate" => courses' = courses

\* C4: across the whole run no two collected courses and no two exported
\* courses share (university_id, lower-cased course_name, lower-cased level);
\* the course kept for a key is the first one processed, and a later course
\* with that key is discarded without replacing or altering the first.
C4_CourseDedup ==
    /\ [](UniqueIdentities(courses) /\ UniqueIdentities(courses_df)
            /\ EveryExportedCourseCollected)
    /\ [][FirstOccurrenceKept]_vars

\* an extracted course has just been discarded as a duplicate of a collected one
C4_DuplicateDiscarded ==
    /\ pc = "course_loop"
    /\ lastOutcome = "duplicate"
    /\ courses # <<>>

\* the merged value of one field, given what the two sources say of it
MergedFrom(primary, secondary, merged) ==
    /\ primary # NA => merged = primary
    /\ primary = NA => merged = secondary
    /\ merged = NA <=> (primary = NA /\ secondary = NA)

\* C5: the reconciliation is field-wise for name, city and country: the merged
\* field is the primary's value when that is not "N/A" and the secondary's
\* value otherwise, so it is "N/A" only when both are, and no field's value
\* depends on another field.
C5_FieldWisePrecedence ==
    DOMAIN reconciled # {} =>
        /\ MergedFrom(reconciled.primary.name, reconciled.secondary.name,
                      reconciled.merged.name)
        /\ MergedFrom(reconciled.primary.city, reconciled.secondary.city,
                      reconciled.merged.city)
        /\ MergedFrom(reconciled.primary.country, reconciled.secondary.country,
                      reconciled.merged.country)

\* a reconciled target whose primary record resolves the country but not the
\* city, and whose secondary record resolves the city
C5_MixedSources ==
    /\ DOMAIN reconciled # {}
    /\ reconciled.primary.country # NA
    /\ reconciled.primary.city = NA
    /\ reconciled.secondary.city # NA
    /\ reconciled.secondary.country # NA
    /\ reconciled.secondary.country # reconciled.primary.country

\* C6: whenever the output artifact is written, the exported Universities
\* table and the exported Courses table both have at least one row.
C6_NoEmptyExport ==
    exported => (Len(universities_df) >= 1 /\ Len(courses_df) >= 1)

\* the courses collected for the i-th target
CoursesOfTarget(rows, i) ==
    { k \in 1..Len(rows) : rows[k].university_id = IdentifierOfTarget(i) }

\* one step of main() seen from the loop over program_links
CourseLoopStep ==
    /\ \A i \in 1..Len(targetLog) :
          Cardinality(CoursesOfTarget(courses', i)) <= MIN_COURSES_PER_UNIVERSITY
    /\ pc = "course_loop" =>
          IF collected >= MIN_COURSES_PER_UNIVERSITY \/ linkPos > Len(program_links)
          THEN /\ pc' = "loop_head"
               /\ courses' = courses
          ELSE /\ pc' = "course_loop"
               /\ linkPos' = linkPos + 1
               /\ program_links' = program_links
               /\ lastOutcome' \in {"none", "raised", "duplicate", "added"}
               /\ IF lastOutcome' = "added"
                  THEN /\ collected' = collected + 1
                       /\ Len(courses') = Len(courses) + 1
                       /\ courses'[Len(courses')].university_id = IdentifierOfTarget(idx)
                  ELSE /\ collected' = collected
                       /\ courses' = courses
                       /\ global_course_keys' = global_course_keys

\* C7: for a retained university the links are processed in discovery order,
\* one after the other; only a fetched, extracted, non-duplicate course adds to
\* the count, every other outcome adds nothing; processing stops as soon as
\* MIN_COURSES_PER_UNIVERSITY courses are accepted or the list is exhausted, so
\* no university has more than that many accepted courses and no link after
\* the one that reached the minimum is fetched.
C7_CourseLoop == [][CourseLoopStep]_vars

\* the minimum has just been reached with a link still left in the list
C7_MinimumReachedEarly ==
    /\ pc = "course_loop"
    /\ collected = MIN_COURSES_PER_UNIVERSITY
    /\ linkPos <= Len(program_links)

\* the attempt answered with HTTP 200
Answers200(outcome) == outcome.kind = "response" /\ outcome.status_code = 200

\* the first of the first n attempts that answers with HTTP 200, 0 if none does
First200(responses, n) ==
    IF \E k \in 1..n : Answers200(responses[k])
    THEN CHOOSE k \in 1..n :
            Answers200(responses[k]) /\ \A j \in 1..(k - 1) : ~Answers200(responses[j])
    ELSE 0

\* a call of fetch_html at any moment
FetchBounded ==
    /\ fAttempt - 1 <= fRetries
    /\ pc = "fetch_html" => \A k \in 1..(fAttempt - 1) : ~Answers200(fResponses[k])
    /\ pc = "returned" =>
          /\ fReturn.attempts <= fRetries
          /\ IF First200(fResponses, fRetries) # 0
             THEN /\ fReturn.attempts = First200(fResponses, fRetries)
                  /\ fReturn.text = fResponses[First200(fResponses, fRetries)].text
             ELSE /\ fReturn.attempts = fRetries
                  /\ fReturn.text = Absent
          /\ fReturn = fetch_html(fResponses, fRetries)

\* C8: fetch_html with bound retries makes at most retries attempts; it returns
\* the body of the first attempt answered with HTTP 200 and makes no attempt
\* after it; any other outcome of an attempt leads to the next attempt, and
\* after exactly retries failed attempts it returns absence; it always
\* terminates.
C8_FetchRetries == []FetchBounded /\ <>(pc = "returned")

\* a call with three attempts allowed that returned the body of the second
\* attempt, the first having answered with another status
C8_SecondAttemptSucceeds ==
    /\ pc = "returned"
    /\ fRetries = 3
    /\ fResponses[1].kind = "response"
    /\ fResponses[1].status_code # 200
    /\ fReturn.attempts = 2
    /\ fReturn.text # Absent

\* C9: the university retained for the i-th configured target has identifier
\* U<i>, three digits, whatever happened to the other targets; the identifier
\* of a skipped target is not reused, and no two rows of the Universities
\* table, collected or exported, share an identifier.
C9_StableIdentifiers ==
    /\ \A i \in 1..Len(targetLog) :
          targetLog[i].row # 0 =>
              universities[targetLog[i].row].university_id = IdentifierOfTarget(i)
    /\ \A k \in 1..Len(universities) :
          \E i \in 1..Len(targetLog) :
              targetLog[i].row = k /\ targetLog[i].status = "retained"
    /\ \A k, m \in 1..Len(universities) :
          universities[k].university_id = universities[m].university_id => k = m
    /\ \A k, m \in 1..Len(universities_df) :
          universities_df[k].university_id = universities_df[m].university_id => k = m
    /\ \A k \in 1..Len(universities_df) :
          \E i \in 1..Len(targetLog) :
              /\ targetLog[i].status = "retained"
              /\ universities_df[k].university_id = IdentifierOfTarget(i)

\* a target was retained after an earlier one was skipped, one by a failed
\* fetch or by the country filter
C9_RetainedAfterSkipped ==
    \E i, j \in 1..Len(targetLog) :
        /\ i < j
        /\ targetLog[i].status \in {"fetch_failed", "filtered"}
        /\ targetLog[j].status = "retained"
        /\ targetLog[j].row # j

\* the badge that decides the value stored under the key "duration": the last
\* badge with both tags whose title is Duration
DecidingDuration(k) ==
    /\ k \in 1..Len(badge_tags)
    /\ badge_tags[k].title_tag = << <<"D", "u", "r", "a", "t", "i", "o", "n">> >>
    /\ badge_tags[k].value_tag # Absent
    /\ \A j \in (k + 1)..Len(badge_tags) :
          badge_tags[j].title_tag # << <<"D", "u", "r", "a", "t", "i", "o", "n">> >> \/ badge_tags[j].value_tag = Absent

\* C10, as stated: for a badge titled "Duration" whose displayed value is
\* "Duration: 2 Years", extract_badges stores "2 Years" under the key "duration".
C10_LeadingTitleRemoved ==
    pc = "returned" =>
        \A k \in 1..Len(badge_tags) :
            (DecidingDuration(k) /\ badge_tags[k].value_tag = << <<"D", "u", "r", "a", "t", "i", "o", "n", ":", " ", "2", " ", "Y", "e", "a", "r", "s">> >>)
                => Lookup(badges, <<"d", "u", "r", "a", "t", "i", "o", "n">>) = <<"2", " ", "Y", "e", "a", "r", "s">>

\* C10, as the code has it: extract_badges removes the title from the value
\* only where the value ends with it, compared case-insensitively.  For a badge
\* titled "Duration", the value "Duration: 2 Years" is stored unchanged under
\* "duration", the value "2 Years duration" is stored as "2 Years", and a value
\* that is the title alone, or blank, is stored as "N/A".
C10_TrailingTitleRemoved ==
    pc = "returned" =>
        \A k \in 1..Len(badge_tags) :
            DecidingDuration(k) =>
                Lookup(badges, <<"d", "u", "r", "a", "t", "i", "o", "n">>) =
                    CASE badge_tags[k].value_tag = << <<"D", "u", "r", "a", "t", "i", "o", "n", ":", " ", "2", " ", "Y", "e", "a", "r", "s">> >>
                            -> <<"D", "u", "r", "a", "t", "i", "o", "n", ":", " ", "2", " ", "Y", "e", "a", "r", "s">>
                      [] badge_tags[k].value_tag = << <<"2", " ", "Y", "e", "a", "r", "s", " ", "d", "u", "r", "a", "t", "i", "o", "n">> >>
                            -> <<"2", " ", "Y", "e", "a", "r", "s">>
                      [] badge_tags[k].value_tag = << <<"t", "u", "i", "t", "i", "o", "n", " ", "f", "e", "e">> >>
                            -> <<"t", "u", "i", "t", "i", "o", "n", " ", "f", "e", "e">>
                      [] badge_tags[k].value_tag = << <<"D", "U", "R", "A", "T", "I", "O", "N">> >> -> NA
                      [] badge_tags[k].value_tag = << <<" ">> >> -> NA

\* extract_badges returned for a page whose last Duration badge displays
\* "Duration: 2 Years"
C10_DurationBadgeStored ==
    /\ pc = "returned"
    /\ \E k \in 1..Len(badge_tags) :
          /\ DecidingDuration(k)
          /\ badge_tags[k].value_tag = << <<"D", "u", "r", "a", "t", "i", "o", "n", ":", " ", "2", " ", "Y", "e", "a", "r", "s">> >>
    /\ Lookup(badges, <<"d", "u", "r", "a", "t", "i", "o", "n">>) # Absent

\* the department's address gives this field a non-empty value
Exposes(text) == clean_text(text) # NA

\* the first department that exposes both a locality and a country, 0 if none
FirstComplete(departments) ==
    IF \E k \in 1..Len(departments) :
          Exposes(departments[k].addressLocality) /\ Exposes(departments[k].addressCountry)
    THEN CHOOSE k \in 1..Len(departments) :
            /\ Exposes(departments[k].addressLocality)
            /\ Exposes(departments[k].addressCountry)
            /\ \A j \in 1..(k - 1) :
                  ~(Exposes(departments[j].addressLocality)
                      /\ Exposes(departments[j].addressCountry))
    ELSE 0

\* the city and country the organization's departments should yield
FromFirstComplete(departments, k, city, country) ==
    IF k = 0 THEN city = NA /\ country = NA
    ELSE /\ city = smart_title_case(departments[k].addressLocality)
         /\ country = smart_title_case(departments[k].addressCountry)

\* C11: for every list of departments of the organization object, the returned
\* city and country are both those of the first department exposing both a
\* non-empty addressLocality and a non-empty addressCountry, each through
\* smart_title_case; a department exposing only one of the two contributes
\* neither, and when no department exposes both, both are "N/A".
C11_FirstCompleteDepartment ==
    (pc = "returned" /\ DOMAIN meta # {}) =>
        FromFirstComplete(meta_html.jsonld[1].department,
                          FirstComplete(meta_html.jsonld[1].department),
                          meta.city, meta.country)
=============================================================================
